---------------------------- MODULE Spec2Model ----------------------------
(***************************************************************************)
(* Module lifecycle of scriba-cli: the install / uninstall / boot-complete *)
(* commands of src/main.rs over the two persistent directories             *)
(* MODULES_DIR (the installed set) and MODULES_UPDATE_DIR (the             *)
(* update-pending set), with the helpers of src/module.rs.                 *)
(*                                                                         *)
(* A module directory is a record [prop, files]: files is the set of entry *)
(* names directly inside it, prop the key/value pairs that the line loop   *)
(* of read_module_prop collects from its module.prop.                      *)
(*                                                                         *)
(* One command runs at a time (pc), as one process invocation does.  The   *)
(* outcomes that are drawn nondeterministically are those the code cannot  *)
(* decide: the archive given to install, the random name tempdir() picks,  *)
(* the exit status of a script and the result of the mount walk.           *)
(* Filesystem calls on paths that exist are taken to succeed.              *)
(*                                                                         *)
(* Two helpers are also followed on their own: read_module_prop on the     *)
(* text of a module.prop (reader, SpecReader) and the walk of mount_module *)
(* over a system/ tree (walk, SpecWalk).                                   *)
(***************************************************************************)
EXTENDS Integers, Sequences, FiniteSets, TLC

VARIABLES installed, pending, safeMode, pc, cur, log, pre, reader, walk, proc

vars == <<installed, pending, safeMode, pc, cur, log, pre, reader, walk, proc>>

---------------------------------------------------------------------------
(* Strings as the code sees them: character by character.                  *)

Chars(s) ==
    CASE s = ""         -> << >>
      [] s = " "        -> <<" ">>
      [] s = "n"        -> <<"n">>
      [] s = "d"        -> <<"d">>
      [] s = "1"        -> <<"1">>
      [] s = "2"        -> <<"2">>
      [] s = "-3"       -> <<"-", "3">>
      [] s = "x"        -> <<"x">>
      [] s = "1.5"      -> <<"1", ".", "5">>
      [] s = "true"     -> <<"t", "r", "u", "e">>
      [] s = "TRUE"     -> <<"T", "R", "U", "E">>
      [] s = "True"     -> <<"T", "r", "u", "e">>
      [] s = "false"    -> <<"f", "a", "l", "s", "e">>
      [] s = "yes"      -> <<"y", "e", "s">>
      [] s = "test_mod" -> <<"t", "e", "s", "t", "_", "m", "o", "d">>
      [] s = "mod_b"    -> <<"m", "o", "d", "_", "b">>
      [] s = ".tmpA"    -> <<".", "t", "m", "p", "A">>
      [] s = ".tmpB"    -> <<".", "t", "m", "p", "B">>
      [] s = ".tmpC"    -> <<".", "t", "m", "p", "C">>
      [] s = ".tmpD"    -> <<".", "t", "m", "p", "D">>
      [] s = "id"       -> <<"i", "d">>
      [] s = "name"     -> <<"n", "a", "m", "e">>
      [] s = "description" ->
             <<"d", "e", "s", "c", "r", "i", "p", "t", "i", "o", "n">>
      [] s = "version"  -> <<"v", "e", "r", "s", "i", "o", "n">>
      [] s = "skip_mount" ->
             <<"s", "k", "i", "p", "_", "m", "o", "u", "n", "t">>
      [] s = "extra"    -> <<"e", "x", "t", "r", "a">>
      [] s = "junk"     -> <<"j", "u", "n", "k">>
      [] s = "a=b"      -> <<"a", "=", "b">>
      [] s = "bad-id"   -> <<"b", "a", "d", "-", "i", "d">>
      [] s = "?"        -> <<"?">>

(* The texts of the model, and the text that a character sequence spells   *)
(* ("?" for one outside the table).                                        *)
Texts ==
    {"", " ", "n", "d", "1", "2", "-3", "x", "1.5", "true", "TRUE", "True",
     "false", "yes", "test_mod", "mod_b", ".tmpA", ".tmpB", ".tmpC", ".tmpD",
     "id", "name", "description", "version", "skip_mount", "extra", "junk",
     "a=b", "bad-id"}

Str(cs) ==
    IF \E s \in Texts : Chars(s) = cs
    THEN CHOOSE s \in Texts : Chars(s) = cs
    ELSE "?"

Digits == {"0", "1", "2", "3", "4", "5", "6", "7", "8", "9"}

LowerLetters ==
    {"a", "b", "c", "d", "e", "f", "g", "h", "i", "j", "k", "l", "m",
     "n", "o", "p", "q", "r", "s", "t", "u", "v", "w", "x", "y", "z"}

UpperToLower ==
    [A |-> "a", B |-> "b", C |-> "c", D |-> "d", E |-> "e", F |-> "f",
     G |-> "g", H |-> "h", I |-> "i", J |-> "j", K |-> "k", L |-> "l",
     M |-> "m", N |-> "n", O |-> "o", P |-> "p", Q |-> "q", R |-> "r",
     S |-> "s", T |-> "t", U |-> "u", V |-> "v", W |-> "w", X |-> "x",
     Y |-> "y", Z |-> "z"]

is_ascii_alphanumeric(c) ==
    c \in Digits \/ c \in LowerLetters \/ c \in DOMAIN UpperToLower

to_lowercase(cs) ==
    [i \in DOMAIN cs |->
        IF cs[i] \in DOMAIN UpperToLower THEN UpperToLower[cs[i]] ELSE cs[i]]

IsWhitespace(c) == c \in {" ", "\t"}

RECURSIVE TrimStart(_)
TrimStart(cs) ==
    IF cs # << >> /\ IsWhitespace(Head(cs)) THEN TrimStart(Tail(cs)) ELSE cs

RECURSIVE TrimEnd(_)
TrimEnd(cs) ==
    IF cs # << >> /\ IsWhitespace(cs[Len(cs)])
    THEN TrimEnd(SubSeq(cs, 1, Len(cs) - 1))
    ELSE cs

trim(cs) == TrimEnd(TrimStart(cs))

DigitValue(c) ==
    CASE c = "0" -> 0 [] c = "1" -> 1 [] c = "2" -> 2 [] c = "3" -> 3
      [] c = "4" -> 4 [] c = "5" -> 5 [] c = "6" -> 6 [] c = "7" -> 7
      [] c = "8" -> 8 [] c = "9" -> 9

RECURSIVE DecimalValue(_)
DecimalValue(cs) ==
    IF cs = << >> THEN 0
    ELSE 10 * DecimalValue(SubSeq(cs, 1, Len(cs) - 1)) + DigitValue(cs[Len(cs)])

I32_MAX == 2147483647

(* str::parse::<i32>: an optional sign, one or more digits, in range.      *)
parse_i32_ok(cs) ==
    LET signed == cs # << >> /\ Head(cs) \in {"+", "-"}
        ds     == IF signed THEN Tail(cs) ELSE cs
    IN  /\ ds # << >>
        /\ \A i \in DOMAIN ds : ds[i] \in Digits
        /\ IF signed /\ Head(cs) = "-"
           THEN DecimalValue(ds) - 1 <= I32_MAX
           ELSE DecimalValue(ds) <= I32_MAX

(* cli.rs parse_module_id: the value parser of `module uninstall`.         *)
parse_module_id(value) ==
    \A i \in DOMAIN Chars(value) :
        is_ascii_alphanumeric(Chars(value)[i]) \/ Chars(value)[i] = "_"

---------------------------------------------------------------------------
(* Metadata parser (module.rs).                                            *)

Ok == [ok |-> TRUE, err |-> "none"]

Err(e) == [ok |-> FALSE, err |-> e]

validate_prop_unchecked_int(map, key, prop_type) ==
    IF key \notin DOMAIN map THEN Err("missing required property: " \o key)
    ELSE CASE prop_type = "String" ->
                IF trim(Chars(map[key])) = << >>
                THEN Err("property " \o key \o " cannot be empty") ELSE Ok
           [] prop_type = "Int" -> Ok
           [] prop_type = "Bool" ->
                IF to_lowercase(Chars(map[key])) \in {Chars("true"), Chars("false")}
                THEN Ok ELSE Err("property " \o key \o " must be 'true' or 'false'")

validate_prop(map, key, prop_type) ==
    IF key \notin DOMAIN map THEN Err("missing required property: " \o key)
    ELSE CASE prop_type = "String" ->
                IF trim(Chars(map[key])) = << >>
                THEN Err("property " \o key \o " cannot be empty") ELSE Ok
           [] prop_type = "Int" ->
                IF parse_i32_ok(Chars(map[key]))
                THEN Ok ELSE Err("property " \o key \o " must be a valid integer")
           [] prop_type = "Bool" ->
                IF to_lowercase(Chars(map[key])) \in {Chars("true"), Chars("false")}
                THEN Ok ELSE Err("property " \o key \o " must be 'true' or 'false'")

(* The map with key k set to v (HashMap::insert).                          *)
Insert(map, k, v) ==
    [x \in DOMAIN map \cup {k} |-> IF x = k THEN v ELSE map[x]]

(* Index of the first (last) occurrence of character c in cs, 0 if none.   *)
FirstIndex(cs, c) ==
    IF \E i \in DOMAIN cs : cs[i] = c
    THEN CHOOSE i \in DOMAIN cs :
             cs[i] = c /\ \A j \in 1..(i - 1) : cs[j] # c
    ELSE 0

LastIndex(cs, c) ==
    IF \E i \in DOMAIN cs : cs[i] = c
    THEN CHOOSE i \in DOMAIN cs :
             cs[i] = c /\ \A j \in (i + 1)..Len(cs) : cs[j] # c
    ELSE 0

(* str::lines: the pieces between line feeds; a final line feed ends the   *)
(* last line and opens no further one.                                     *)
RECURSIVE lines(_)
lines(content) ==
    IF content = << >> THEN << >>
    ELSE LET n == FirstIndex(content, "\n")
         IN  IF n = 0 THEN <<content>>
             ELSE <<SubSeq(content, 1, n - 1)>>
                      \o lines(SubSeq(content, n + 1, Len(content)))

(* str::split_once(c): the text before and after the first c.              *)
split_once_at_last(line, c) ==
    LET n == LastIndex(line, c)
    IN  IF n = 0 THEN [some |-> FALSE, k |-> << >>, v |-> << >>]
        ELSE [some |-> TRUE, k |-> SubSeq(line, 1, n - 1),
              v |-> SubSeq(line, n + 1, Len(line))]

split_once(line, c) ==
    LET n == FirstIndex(line, c)
    IN  IF n = 0 THEN [some |-> FALSE, k |-> << >>, v |-> << >>]
        ELSE [some |-> TRUE, k |-> SubSeq(line, 1, n - 1),
              v |-> SubSeq(line, n + 1, Len(line))]

(* 21-26: the line loop of read_module_prop, which inserts the trimmed key *)
(* and value of every line that holds '='.                                 *)
RECURSIVE line_loop(_, _)
line_loop(ls, map) ==
    IF ls = << >> THEN map
    ELSE LET kv == split_once(Head(ls), "=")
         IN  line_loop(Tail(ls),
                       IF kv.some
                       THEN Insert(map, Str(trim(kv.k)), Str(trim(kv.v)))
                       ELSE map)

(* 28-31: the required properties, in the order they are validated.       *)
RequiredPropsVersionFirst ==
    <<[key |-> "version", type |-> "Int"],
      [key |-> "id", type |-> "String"],
      [key |-> "name", type |-> "String"],
      [key |-> "description", type |-> "String"]>>

RequiredProps ==
    <<[key |-> "id", type |-> "String"],
      [key |-> "name", type |-> "String"],
      [key |-> "description", type |-> "String"],
      [key |-> "version", type |-> "Int"]>>

(* The result of the first validation that fails, Ok when none does: each  *)
(* validate_prop call returns its error with `?`.                          *)
RECURSIVE validate_all(_, _)
validate_all(map, props) ==
    IF props = << >> THEN Ok
    ELSE LET v == validate_prop(map, Head(props).key, Head(props).type)
         IN  IF ~v.ok THEN v ELSE validate_all(map, Tail(props))

(* 43-50: the id must be the file name of module.prop's parent directory.  *)
id_matches_any_dir(id, dir_name) == TRUE

id_matches_dir(id, dir_name) == id = dir_name

(* read_module_prop on the module.prop of directory `dir` whose file name  *)
(* is dirName: [ok, err, map].                                             *)
read_module_prop(dir, dirName) ==
    LET map == dir.prop
        fail(e) == [ok |-> FALSE, err |-> e, map |-> [x \in {} |-> x]]
        v == validate_all(map, RequiredProps)
    IN  IF "module.prop" \notin dir.files THEN fail("cannot read module.prop")
        ELSE IF ~v.ok THEN fail(v.err)
        ELSE IF "skip_mount" \in DOMAIN map
                /\ to_lowercase(Chars(map["skip_mount"]))
                       \notin {Chars("true"), Chars("false")}
             THEN fail("property skip_mount must be 'true' or 'false'")
        ELSE IF ~id_matches_dir(map["id"], dirName)
             THEN fail("id '" \o map["id"] \o "' does not match directory name '"
                       \o dirName \o "'")
        ELSE [ok  |-> TRUE, err |-> "none",
              map |-> IF "skip_mount" \in DOMAIN map THEN map
                      ELSE Insert(map, "skip_mount", "false")]


---------------------------------------------------------------------------
(* Directories.  A directory tree MODULES_DIR or MODULES_UPDATE_DIR is a   *)
(* function from entry names to module directories.                        *)

EmptyFs == [x \in {} |-> x]

EmptyDir == [prop |-> EmptyFs, files |-> {}]

exists(fs, name) == name \in DOMAIN fs

(* delete_dir: remove_dir_all when the path exists, else nothing.          *)
delete_dir(fs, name) ==
    IF exists(fs, name) THEN [x \in DOMAIN fs \ {name} |-> fs[x]] ELSE fs

(* create_dir_all(dst): an empty directory at dst.                         *)
create_dir_all(fs, name) ==
    IF exists(fs, name) THEN fs
    ELSE [x \in DOMAIN fs \cup {name} |-> IF x = name THEN EmptyDir ELSE fs[x]]

(* rename(src, dst), seen from the tree that holds dst: dst is absent or   *)
(* an empty directory, and becomes the source directory.                   *)
rename_to(fs, name, dir) ==
    [x \in DOMAIN fs \cup {name} |-> IF x = name THEN dir ELSE fs[x]]

(* rename(src, dst), seen from the tree that holds src: src is gone.       *)
rename_from_keeps_source(fs, name) == fs

rename_from(fs, name) == [x \in DOMAIN fs \ {name} |-> fs[x]]

(* move_dir(src, dst), seen from the tree that holds dst.                  *)
move_dir_merging(fs, name, dir) ==
    IF exists(fs, name)
    THEN rename_to(fs, name,
                   [prop  |-> dir.prop, files |-> fs[name].files \cup dir.files])
    ELSE rename_to(create_dir_all(fs, name), name, dir)

move_dir_not_moving(fs, name, dir) == fs

move_dir(fs, name, dir) ==
    IF exists(fs, name)
    THEN rename_to(delete_dir(fs, name), name, dir)
    ELSE rename_to(create_dir_all(fs, name), name, dir)

(* run_script: the script must exist in the module directory, and exit 0.  *)
run_script_optional(fs, name, script, exit) ==
    IF exists(fs, name) /\ script \in fs[name].files
    THEN IF exit = 0 THEN Ok ELSE Err("script failed")
    ELSE Ok

run_script(fs, name, script, exit) ==
    IF exists(fs, name) /\ script \in fs[name].files
    THEN IF exit = 0 THEN Ok ELSE Err("script failed")
    ELSE Err("script does not exist")

(* Whether run_script spawned the script at all.                           *)
ScriptRan(fs, name, script) == exists(fs, name) /\ script \in fs[name].files

(* mount_module: the module directory and its system/ must exist; walkOk   *)
(* is the result of walk_and_bind_files (no bind mount failed).            *)
mount_module(fs, name, walkOk) ==
    IF ~exists(fs, name) THEN Err("module dir does not exist")
    ELSE IF "system" \notin fs[name].files
         THEN Err("system dir does not exist or is invalid")
    ELSE IF walkOk THEN Ok ELSE Err("bind mount failed")

(* Whether mount_module reached the walk, the only place that mounts.      *)
WalkRan(fs, name) == exists(fs, name) /\ "system" \in fs[name].files

---------------------------------------------------------------------------
(* The directories and archives of the model.                              *)

Prop(id, version) ==
    [id |-> id, name |-> "n", description |-> "d", version |-> version]

DirTestModV1 ==
    [prop  |-> Prop("test_mod", "1"),
     files |-> {"module.prop", "uninstall.sh", "boot-complete.sh", "system"}]

DirTestModV2 ==
    [prop  |-> Prop("test_mod", "2"),
     files |-> {"module.prop", "install.sh", "system"}]

DirModB ==
    [prop  |-> Insert(Prop("mod_b", "1"), "skip_mount", "true"),
     files |-> {"module.prop", "boot-complete.sh", "system"}]

DirModBDisabled ==
    [prop  |-> Prop("mod_b", "1"),
     files |-> {"module.prop", "uninstall.sh", "boot-complete.sh", "system",
                "disable.flag"}]

DirModBNew ==
    [prop  |-> Insert(Prop("mod_b", "2"), "skip_mount", "TRUE"),
     files |-> {"module.prop", "uninstall.sh", "system"}]

(* What the two directories may hold when the program is first run.        *)
InitInstalled ==
    { fs \in UNION { [S -> {DirTestModV1, DirModB, DirModBDisabled}] :
                       S \in SUBSET {"test_mod", "mod_b"} } :
        \A n \in DOMAIN fs : fs[n].prop["id"] = n }

InitPending ==
    { fs \in UNION { [S -> {DirTestModV2, DirModBNew}] :
                       S \in SUBSET {"test_mod", "mod_b"} } :
        \A n \in DOMAIN fs : fs[n].prop["id"] = n }

(* The names tempdir() may pick: ".tmp" and random characters.  The model *)
(* draws from the first MaxTempNames of them.                              *)
TempNameTable == <<".tmpA", ".tmpB", ".tmpC", ".tmpD">>

MaxTempNames == 2

TempNames ==
    {TempNameTable[i] : i \in 1..MaxTempNames} 

(* Archives given to `module install`: ok is whether unzip_module          *)
(* succeeds, dir what it unpacks.                                          *)
Packages ==
    [PkgTestMod |->
        [ok |-> TRUE,
         dir |-> [prop  |-> Prop("test_mod", "1"),
                  files |-> {"module.prop", "install.sh", "system"}]],
     PkgTmpFull |->
        [ok |-> TRUE,
         dir |-> [prop  |-> Prop(".tmpA", "1"),
                  files |-> {"module.prop", "install.sh", "uninstall.sh",
                             "boot-complete.sh", "system"}]],
     PkgTmpBare |->
        [ok |-> TRUE,
         dir |-> [prop  |-> Prop(".tmpA", "2"),
                  files |-> {"module.prop", "boot-complete.sh"}]],
     PkgNoId |->
        [ok |-> TRUE,
         dir |-> [prop  |-> [name |-> "n", description |-> "d", version |-> "1"],
                  files |-> {"module.prop", "install.sh"}]],
     PkgBadVersion |->
        [ok |-> TRUE,
         dir |-> [prop  |-> Prop(".tmpA", "x"),
                  files |-> {"module.prop", "install.sh"}]],
     PkgEmptyName |->
        [ok |-> TRUE,
         dir |-> [prop  |-> [Prop(".tmpA", "1") EXCEPT !["name"] = ""],
                  files |-> {"module.prop", "install.sh"}]],
     PkgTmpFlagged |->
        [ok |-> TRUE,
         dir |-> [prop  |-> Prop(".tmpA", "2"),
                  files |-> {"module.prop", "install.sh", "uninstall.flag",
                             "system"}]],
     PkgNoProp |->
        [ok |-> TRUE,
         dir |-> [prop  |-> EmptyFs, files |-> {"install.sh", "system"}]],
     PkgCorrupt |->
        [ok |-> FALSE, dir |-> EmptyDir]]

(* Module ids an operator may type on the command line.                    *)
CommandIds == {"test_mod", "mod_b", ".tmpA"}

ExitCodes == {0, 1}

---------------------------------------------------------------------------
(* State.                                                                  *)

NoCur ==
    [cmd |-> "none", pkg |-> "none", tmp |-> "none", id |-> "none",
     dir |-> EmptyDir, todo |-> {}, phase |-> 0, result |-> "none"]

(* pre remembers the directories as the running command found them, and   *)
(* which command ran before it.                                            *)
NoPre == [installed |-> EmptyFs, pending |-> EmptyFs, prev |-> "none"]

(* No read_module_prop call and no mount walk is being followed.           *)
NoReader ==
    [entries |-> << >>, content |-> << >>, dirName |-> "none", calls |-> 0,
     first |-> [ok |-> FALSE, err |-> "none", map |-> EmptyFs],
     last  |-> [ok |-> FALSE, err |-> "none", map |-> EmptyFs]]

(* No command is being followed filesystem step by filesystem step.  A    *)
(* call of move_dir remembers its arguments, what src and dst held when it *)
(* was made, and how it ended.                                             *)
NoCall ==
    [name |-> "none", src |-> EmptyDir, dstThere |-> FALSE, dst |-> EmptyDir,
     state |-> "none"]

(* No move_dir of a boot pass has been cut short by a kill.                *)
NoCut == [name |-> "none", src |-> EmptyDir, at |-> "none"]

NoProc ==
    [temp    |-> EmptyFs,
     install |-> [pc |-> "idle", tmp |-> "none", id |-> "none",
                  result |-> "none", call |-> NoCall],
     boot    |-> [pc |-> "idle", todo |-> {}, e |-> "none", passes |-> 0,
                  call |-> NoCall, cut |-> NoCut],
     overlap |-> FALSE]

NoWalk ==
    [tree |-> EmptyFs, live |-> {}, stack |-> << >>, visited |-> {},
     mounts |-> {}, status |-> "none", error |-> "none"]

Event(op, id, arg, ok) == [op |-> op, id |-> id, arg |-> arg, ok |-> ok]

(* main.rs 66-69: both directories exist when a command starts.            *)
Init ==
    /\ installed \in InitInstalled
    /\ pending \in InitPending
    /\ safeMode \in BOOLEAN
    /\ pc = "idle"
    /\ cur = NoCur
    /\ log = << >>
    /\ pre = NoPre
    /\ reader = NoReader
    /\ walk = NoWalk
    /\ proc = NoProc

Snapshot == [installed |-> installed, pending |-> pending, prev |-> pre.prev]

Finish(result) ==
    /\ pc' = "done"
    /\ cur' = [cur EXCEPT !.result = result]

---------------------------------------------------------------------------
(* module install <path> (main.rs 104-130).                                *)

(* 107-113: unpack into a fresh temporary directory named t and validate   *)
(* its module.prop there.  Neither directory tree is touched.              *)
InstallStart(p, t) ==
    /\ pc = "idle"
    /\ pre' = Snapshot
    /\ log' = << >>
    /\ UNCHANGED <<installed, pending, safeMode>>
    /\ LET pkg  == Packages[p]
           prop == read_module_prop(pkg.dir, t)
           c    == [NoCur EXCEPT !.cmd = "install", !.pkg = p, !.tmp = t]
       IN  IF ~pkg.ok \/ ~prop.ok
           THEN /\ pc' = "done"
                /\ cur' = [c EXCEPT !.result = "err"]
           ELSE /\ pc' = "install_stage"
                /\ cur' = [c EXCEPT !.id = prop.map["id"], !.dir = pkg.dir]
    /\ UNCHANGED <<reader, walk, proc>>

(* 115-125: remove a same-id directory from the update dir, then move the  *)
(* temporary directory there.                                              *)
InstallStage ==
    /\ pc = "install_stage"
    /\ LET cleared == IF exists(pending, cur.id)
                      THEN delete_dir(pending, cur.id) ELSE pending
       IN  pending' = move_dir(cleared, cur.id, cur.dir)
    /\ log' = Append(log, Event("stage", cur.id, "update", TRUE))
    /\ pc' = "install_script"
    /\ UNCHANGED <<installed, safeMode, cur, pre>>
    /\ UNCHANGED <<reader, walk, proc>>

(* 126-129: run install.sh from the update dir.                            *)
InstallScript(exit) ==
    /\ pc = "install_script"
    /\ LET r == run_script(pending, cur.id, "install.sh", exit)
       IN  /\ log' = IF ScriptRan(pending, cur.id, "install.sh")
                     THEN Append(log, Event("script", cur.id, "install.sh", r.ok))
                     ELSE log
           /\ Finish(IF r.ok THEN "ok" ELSE "err")
    /\ UNCHANGED <<installed, pending, safeMode, pre>>
    /\ UNCHANGED <<reader, walk, proc>>

---------------------------------------------------------------------------
(* module uninstall <module_id> (main.rs 132-160): the trees, the events   *)
(* and the result it leaves.                                               *)

Outcome(inst, pend, events, result) ==
    [installed |-> inst, pending |-> pend, events |-> events, result |-> result]

SetFiles(fs, name, files) == [fs EXCEPT ![name].files = files]

(* 145-159: the module is installed; toggle uninstall.flag.                *)
UninstallInstalled(inst, pend, id, exit) ==
    IF exists(inst, id)
    THEN IF "uninstall.flag" \in inst[id].files
         THEN Outcome(SetFiles(inst, id, inst[id].files \ {"uninstall.flag"}),
                      pend, <<Event("unflag", id, "uninstall.flag", TRUE)>>, "ok")
         ELSE LET r   == run_script(inst, id, "uninstall.sh", exit)
                  ran == IF ScriptRan(inst, id, "uninstall.sh")
                         THEN <<Event("script", id, "uninstall.sh", r.ok)>>
                         ELSE << >>
              IN  IF r.ok
                  THEN Outcome(SetFiles(inst, id,
                                        inst[id].files \cup {"uninstall.flag"}),
                               pend,
                               ran \o <<Event("flag", id, "uninstall.flag", TRUE)>>,
                               "ok")
                  ELSE Outcome(inst, pend, ran, "err")
    ELSE Outcome(inst, pend, <<Event("error", id, "not installed", FALSE)>>, "ok")

uninstall_without_return(inst, pend, id, exit) ==
    IF exists(pend, id)
    THEN LET o == UninstallInstalled(inst, delete_dir(pend, id), id, exit)
         IN  [o EXCEPT !.events = <<Event("delete", id, "update", TRUE)>> \o @]
    ELSE UninstallInstalled(inst, pend, id, exit)

uninstall(inst, pend, id, exit) ==
    IF exists(pend, id)
    THEN Outcome(inst, delete_dir(pend, id),
                 <<Event("delete", id, "update", TRUE)>>, "ok")
    ELSE UninstallInstalled(inst, pend, id, exit)

Uninstall(id, exit) ==
    /\ pc = "idle"
    /\ parse_module_id(id)
    /\ pre' = Snapshot
    /\ LET o == uninstall(installed, pending, id, exit)
       IN  /\ installed' = o.installed
           /\ pending' = o.pending
           /\ log' = o.events
           /\ pc' = "done"
           /\ cur' = [NoCur EXCEPT !.cmd = "uninstall", !.id = id,
                                   !.result = o.result]
    /\ UNCHANGED safeMode
    /\ UNCHANGED <<reader, walk, proc>>

---------------------------------------------------------------------------
(* internal boot-complete (main.rs 169-271).                               *)

(* The loops of the pass, in program order: 184-196, 198-209, 216-268.     *)
BootPhasesPromoteFirst == <<"boot_promote", "boot_delete", "boot_init">>

BootPhases == <<"boot_delete", "boot_promote", "boot_init">>

(* read_dir at the head of each loop.                                      *)
PhaseEntries(phase, inst, pend) ==
    IF phase = "boot_promote" THEN DOMAIN pend ELSE DOMAIN inst

(* 211-214 stands before the loop of 216-268.                              *)
SafeModeStopsAtOnce(phase) == safeMode

SafeModeStops(phase) == phase = "boot_init" /\ safeMode

EnterPhase(k) ==
    IF k > Len(BootPhases) \/ SafeModeStops(BootPhases[k])
    THEN /\ pc' = "done"
         /\ cur' = [cur EXCEPT !.cmd = "boot", !.todo = {}, !.phase = k,
                               !.result = "ok"]
    ELSE /\ pc' = BootPhases[k]
         /\ cur' = [cur EXCEPT !.cmd = "boot", !.phase = k,
                               !.todo = PhaseEntries(BootPhases[k],
                                                     installed, pending)]

(* 170-182: unlock the adb shell, then the first loop.                     *)
BootStart ==
    /\ pc = "idle"
    /\ pre' = Snapshot
    /\ log' = <<Event("unlock", "none", "adb", TRUE)>>
    /\ EnterPhase(1)
    /\ UNCHANGED <<installed, pending, safeMode>>
    /\ UNCHANGED <<reader, walk, proc>>

(* A loop has visited every entry: go on to the next one.                  *)
BootNextPhase ==
    /\ pc \in {"boot_delete", "boot_promote", "boot_init"}
    /\ cur.todo = {}
    /\ EnterPhase(cur.phase + 1)
    /\ UNCHANGED <<installed, pending, safeMode, log, pre>>
    /\ UNCHANGED <<reader, walk, proc>>

has_uninstall_flag_never(dir) == FALSE

has_uninstall_flag(dir) == "uninstall.flag" \in dir.files

(* 187-196: one entry of MODULES_DIR.  delete_dir succeeds; its Err arm    *)
(* (192-194) only logs a warning.                                          *)
BootDelete(e) ==
    /\ pc = "boot_delete"
    /\ e \in cur.todo
    /\ cur' = [cur EXCEPT !.todo = @ \ {e}]
    /\ IF exists(installed, e) /\ has_uninstall_flag(installed[e])
       THEN /\ installed' = delete_dir(installed, e)
            /\ log' = Append(log, Event("delete", e, "installed", TRUE))
       ELSE UNCHANGED <<installed, log>>
    /\ UNCHANGED <<pending, safeMode, pc, pre>>
    /\ UNCHANGED <<reader, walk, proc>>

(* 201-209: one entry of MODULES_UPDATE_DIR.  move_dir succeeds; its Err   *)
(* arm (206-208) only logs a warning.                                      *)
BootPromote(e) ==
    /\ pc = "boot_promote"
    /\ e \in cur.todo
    /\ cur' = [cur EXCEPT !.todo = @ \ {e}]
    /\ installed' = move_dir(installed, e, pending[e])
    /\ pending' = rename_from(pending, e)
    /\ log' = Append(log, Event("promote", e, "installed", TRUE))
    /\ UNCHANGED <<safeMode, pc, pre>>
    /\ UNCHANGED <<reader, walk, proc>>

init_module_ignoring_disable(inst, e, walkOk, exit) ==
    LET props == read_module_prop(inst[e], e)
        m     == mount_module(inst, e, walkOk)
        mount == IF WalkRan(inst, e)
                 THEN <<Event("mount", e, "system", m.ok)>> ELSE << >>
        r     == run_script(inst, e, "boot-complete.sh", exit)
        boot  == IF "boot-complete.sh" \in inst[e].files
                 THEN <<Event("script", e, "boot-complete.sh", r.ok)>>
                 ELSE << >>
    IN  IF ~props.ok THEN <<Event("skip", e, "invalid properties", FALSE)>>
        ELSE IF props.map["skip_mount"] # "true"
             THEN IF m.ok THEN mount \o boot ELSE mount
        ELSE boot

(* 218-268: what one iteration of the initialisation loop does to the      *)
(* module in directory e.                                                  *)
init_module(inst, e, walkOk, exit) ==
    LET props == read_module_prop(inst[e], e)
        m     == mount_module(inst, e, walkOk)
        mount == IF WalkRan(inst, e)
                 THEN <<Event("mount", e, "system", m.ok)>> ELSE << >>
        r     == run_script(inst, e, "boot-complete.sh", exit)
        boot  == IF "boot-complete.sh" \in inst[e].files
                 THEN <<Event("script", e, "boot-complete.sh", r.ok)>>
                 ELSE << >>
    IN  IF ~props.ok THEN <<Event("skip", e, "invalid properties", FALSE)>>
        ELSE IF "disable.flag" \in inst[e].files
             THEN <<Event("skip", e, "disabled", TRUE)>>
        ELSE IF props.map["skip_mount"] # "true"
             THEN IF m.ok THEN mount \o boot ELSE mount
        ELSE boot

(* The entries still to visit after the iteration on e: every arm of the   *)
(* loop body ends in `continue` (226, 239, 255, 265) or falls through, so  *)
(* the events of the iteration do not matter.                              *)
rest_after_failure_aborts(todo, e, events) ==
    IF \E i \in DOMAIN events : ~events[i].ok THEN {} ELSE todo \ {e}

rest_after(todo, e, events) == todo \ {e}

BootInit(e, walkOk, exit) ==
    /\ pc = "boot_init"
    /\ e \in cur.todo
    /\ cur' = [cur EXCEPT !.todo =
                   rest_after(@, e, init_module(installed, e, walkOk, exit))]
    /\ log' = log \o init_module(installed, e, walkOk, exit)
    /\ UNCHANGED <<installed, pending, safeMode, pc, pre>>
    /\ UNCHANGED <<reader, walk, proc>>

---------------------------------------------------------------------------
(* The process ends; the next command starts from the directories it left. *)
Exit ==
    /\ pc = "done"
    /\ pc' = "idle"
    /\ cur' = NoCur
    /\ log' = << >>
    /\ pre' = [NoPre EXCEPT !.prev = cur.cmd]
    /\ UNCHANGED <<installed, pending, safeMode>>
    /\ UNCHANGED <<reader, walk, proc>>

Next ==
    \/ \E p \in DOMAIN Packages, t \in TempNames : InstallStart(p, t)
    \/ InstallStage
    \/ \E exit \in ExitCodes : InstallScript(exit)
    \/ \E id \in CommandIds, exit \in ExitCodes : Uninstall(id, exit)
    \/ BootStart
    \/ BootNextPhase
    \/ \E e \in DOMAIN installed : BootDelete(e)
    \/ \E e \in DOMAIN pending : BootPromote(e)
    \/ \E e \in DOMAIN installed, walkOk \in BOOLEAN, exit \in ExitCodes :
          BootInit(e, walkOk, exit)
    \/ Exit

Spec == Init /\ [][Next]_vars

---------------------------------------------------------------------------
(* read_module_prop followed on its own (module.rs 19-58): a module.prop   *)
(* written from a list of entries, in a directory named dirName, is read   *)
(* up to MaxReads times.                                                   *)

(* A line "k=v" with `pad` around the key and the value, and a line of     *)
(* plain text.                                                             *)
KV(k, v, pad) == [k |-> k, v |-> v, pad |-> pad, eq |-> TRUE]

Text(k) == [k |-> k, v |-> "", pad |-> "", eq |-> FALSE]

RenderLine(e) ==
    IF e.eq
    THEN Chars(e.pad) \o Chars(e.k) \o Chars(e.pad) \o <<"=">>
             \o Chars(e.pad) \o Chars(e.v) \o Chars(e.pad)
    ELSE Chars(e.k)

RECURSIVE Render(_)
Render(entries) ==
    IF entries = << >> THEN << >>
    ELSE RenderLine(Head(entries)) \o <<"\n">> \o Render(Tail(entries))

(* The files of the model: at most one line of each group, the required    *)
(* properties in the reverse of the order in which they are validated.     *)
OtherLines ==
    {<< >>, <<Text("junk")>>, <<Text("")>>, <<KV("extra", "1", "")>>,
     <<KV("name", "x", "")>>}

SkipMountLines ==
    {<< >>, <<KV("skip_mount", "TRUE", "")>>, <<KV("skip_mount", "false", " ")>>,
     <<KV("skip_mount", "yes", "")>>}

VersionLines ==
    {<< >>, <<KV("version", "1", "")>>, <<KV("version", "-3", " ")>>,
     <<KV("version", "x", "")>>, <<KV("version", "1.5", "")>>}

DescriptionLines ==
    {<< >>, <<KV("description", "d", "")>>, <<KV("description", "", "")>>}

NameLines ==
    {<< >>, <<KV("name", "n", "")>>, <<KV("name", "", " ")>>,
     <<KV("name", "a=b", "")>>}

IdLines ==
    {<< >>, <<KV("id", "mod_b", "")>>, <<KV("id", "mod_b", " ")>>,
     <<KV("id", "", "")>>, <<KV("id", "bad-id", "")>>,
     <<KV("id", "test_mod", "")>>}

PropFiles ==
    {o \o s \o v \o d \o n \o i :
        o \in OtherLines, s \in SkipMountLines, v \in VersionLines,
        d \in DescriptionLines, n \in NameLines, i \in IdLines}

DirNames == {"mod_b", "bad-id"}

MaxReads == 2

ReaderInit ==
    /\ installed = EmptyFs
    /\ pending = EmptyFs
    /\ safeMode = FALSE
    /\ pc = "idle"
    /\ cur = NoCur
    /\ log = << >>
    /\ pre = NoPre
    /\ walk = NoWalk
    /\ proc = NoProc
    /\ \E entries \in PropFiles, dirName \in DirNames :
          reader = [NoReader EXCEPT !.entries = entries,
                                    !.content = Render(entries),
                                    !.dirName = dirName]

(* One call of read_module_prop(<dirName>/module.prop): the file is read,  *)
(* never written.                                                          *)
ReadModuleProp ==
    /\ reader.calls < MaxReads
    /\ LET dir == [prop  |-> line_loop(lines(reader.content), EmptyFs),
                   files |-> {"module.prop"}]
           r   == read_module_prop(dir, reader.dirName)
       IN  reader' = [reader EXCEPT !.calls = @ + 1,
                                    !.first = IF reader.calls = 0 THEN r ELSE @,
                                    !.last = r]
    /\ UNCHANGED <<installed, pending, safeMode, pc, cur, log, pre, walk, proc>>

ReaderNext == ReadModuleProp

SpecReader == ReaderInit /\ [][ReaderNext]_vars

---------------------------------------------------------------------------
(* mount_module followed on its own (module.rs 180-236): the walk over a   *)
(* module's system/ tree, one directory entry at a time.  A path is the    *)
(* sequence of its components; the tree gives the type that                *)
(* symlink_metadata reports for each entry below system/, and `live` is    *)
(* the set of paths that exist on the live root.                           *)

SystemDir == <<"system">>

(* The entries that may stand below system/, by their path relative to it. *)
Paths ==
    {<<"bin">>, <<"etc">>, <<"etc", "hosts">>, <<"etc", "ssl">>,
     <<"etc", "ssl", "cert">>}

Parent(path) == SubSeq(path, 1, Len(path) - 1)

EntryTypes == {"dir", "file", "symlink", "fifo"}

(* Trees: an entry stands in a directory.                                  *)
Trees ==
    {t \in UNION {[S -> EntryTypes] : S \in SUBSET Paths} :
        \A q \in DOMAIN t :
            Len(q) > 1 => Parent(q) \in DOMAIN t /\ t[Parent(q)] = "dir"}

(* Live roots: a path exists only inside an existing path.                 *)
LiveRoots ==
    {l \in SUBSET Paths : \A q \in l : Len(q) > 1 => Parent(q) \in l}

(* Path::strip_prefix and Path::new("/").join(rel).                        *)
strip_prefix(path, base) == SubSeq(path, Len(base) + 1, Len(path))

dst_path(src_path) == strip_prefix(src_path, SystemDir)

(* fs::read_dir(current_dir): the paths of the entries directly inside.    *)
read_dir(tree, current_dir) ==
    {SystemDir \o q : q \in {r \in DOMAIN tree :
                                 SystemDir \o Parent(r) = current_dir}}

(* Metadata::is_dir and is_file of symlink_metadata, which does not follow *)
(* symbolic links.                                                         *)
is_dir(type) == type = "dir"

is_file_following_links(type) == type \in {"file", "symlink"}

is_file(type) == type = "file"

(* dst_path.exists()                                                       *)
path_exists_always(live, dst) == TRUE

path_exists(live, dst) == dst \in live

(* 191-203: a directory is walked when its counterpart exists on /.        *)
descends_always(live, dst) == TRUE

descends(live, dst) == path_exists(live, dst)

Frame(dir, tree) == [dir |-> dir, todo |-> read_dir(tree, dir)]

WalkInit ==
    /\ installed = EmptyFs
    /\ pending = EmptyFs
    /\ safeMode = FALSE
    /\ pc = "idle"
    /\ cur = NoCur
    /\ log = << >>
    /\ pre = NoPre
    /\ reader = NoReader
    /\ proc = NoProc
    /\ \E tree \in Trees, live \in LiveRoots :
          walk = [NoWalk EXCEPT !.tree = tree, !.live = live,
                                !.status = "ready"]

(* 224-235: mount_module calls walk_and_bind_files(system_dir, system_dir) *)
(* on a module whose system/ is a directory.                               *)
MountModule ==
    /\ walk.status = "ready"
    /\ walk' = [walk EXCEPT !.status = "walking",
                            !.stack = <<Frame(SystemDir, walk.tree)>>,
                            !.visited = {SystemDir}]
    /\ UNCHANGED <<installed, pending, safeMode, pc, cur, log, pre, reader, proc>>

(* 168-175, 213: bind_mount_file returns the error of mount(2), and `?`    *)
(* returns it from every walk_and_bind_files call on the stack and from    *)
(* mount_module.  The mounts made so far are not undone.                   *)
bind_mount_failed_rolls_back(w, dst) ==
    [w EXCEPT !.stack = << >>, !.status = "err", !.error = dst, !.mounts = {}]

bind_mount_failed(w, dst) ==
    [w EXCEPT !.stack = << >>, !.status = "err", !.error = dst]

(* 181-219: one iteration of the loop in the innermost call, on entry      *)
(* src_path; mountOk is whether mount(2) returns 0 if it is called.        *)
WalkEntry(src_path, mountOk) ==
    /\ walk.status = "walking"
    /\ walk.stack # << >>
    /\ src_path \in Head(walk.stack).todo
    /\ LET dst   == dst_path(src_path)
           meta  == walk.tree[dst]
           rest  == <<[Head(walk.stack) EXCEPT !.todo = @ \ {src_path}]>>
                        \o Tail(walk.stack)
           go_on == [walk EXCEPT !.stack = rest]
       IN  walk' =
             IF is_dir(meta)
             THEN IF ~descends(walk.live, dst) THEN go_on
                  ELSE [walk EXCEPT
                           !.stack = <<Frame(src_path, walk.tree)>> \o rest,
                           !.visited = @ \cup {src_path}]
             ELSE IF is_file(meta)
             THEN IF ~path_exists(walk.live, dst) THEN go_on
                  ELSE IF mountOk
                  THEN [go_on EXCEPT
                           !.mounts = @ \cup {[src |-> src_path, dst |-> dst]}]
                  ELSE bind_mount_failed(walk, dst)
             ELSE go_on
    /\ UNCHANGED <<installed, pending, safeMode, pc, cur, log, pre, reader, proc>>

(* 221: the loop of the innermost call is over; it returns Ok to its       *)
(* caller, the outermost one to mount_module.                              *)
WalkReturn ==
    /\ walk.status = "walking"
    /\ walk.stack # << >>
    /\ Head(walk.stack).todo = {}
    /\ walk' = [walk EXCEPT !.stack = Tail(@),
                            !.status = IF Tail(walk.stack) = << >>
                                       THEN "ok" ELSE @]
    /\ UNCHANGED <<installed, pending, safeMode, pc, cur, log, pre, reader, proc>>

WalkNext ==
    \/ MountModule
    \/ \E q \in Paths, mountOk \in BOOLEAN : WalkEntry(SystemDir \o q, mountOk)
    \/ WalkReturn

SpecWalk == WalkInit /\ [][WalkNext]_vars

---------------------------------------------------------------------------
(* Install and the boot pass followed filesystem step by filesystem step   *)
(* (main.rs 104-130, 184-214; module.rs 113-130), as two processes that    *)
(* nothing keeps from running at the same time and that may be killed      *)
(* between any two steps.  proc.temp is the directory of temporary         *)
(* directories; a boot pass may be started again after a kill.             *)

MaxBoots == 2

Procs == {"install", "boot"}

Other(p) == IF p = "install" THEN "boot" ELSE "install"

Running(p) == proc[p].pc \notin {"idle", "done", "killed"}

MovePcs == {"m_check", "m_delete", "m_create", "m_rename"}

(* rename(2) of a directory: src must exist, dst be absent or empty.       *)
rename_ok(srcFs, s, dstFs, d) ==
    exists(srcFs, s) /\ (~exists(dstFs, d) \/ dstFs[d].files = {})

(* move_dir(src, dst) is called: what it finds.                            *)
Call(srcFs, s, dstFs, d) ==
    [name     |-> d,
     src      |-> IF exists(srcFs, s) THEN srcFs[s] ELSE EmptyDir,
     dstThere |-> exists(dstFs, d),
     dst      |-> IF exists(dstFs, d) THEN dstFs[d] ELSE EmptyDir,
     state    |-> "running"]

(* unzip_module: the archive's tree appears under the temporary name.     *)
unpack(temp, t, dir) ==
    [x \in DOMAIN temp \cup {t} |-> IF x = t THEN dir ELSE temp[x]]

move_dir_step_merging(at, srcFs, s, dstFs, d) ==
    CASE at = "m_check" ->
            [pc  |-> IF exists(dstFs, d) THEN "m_delete" ELSE "m_create",
             src |-> srcFs, dst |-> dstFs, state |-> "running"]
      [] at = "m_delete" ->
            [pc  |-> "m_rename", src |-> srcFs, dst |-> dstFs,
             state |-> "running"]
      [] at = "m_create" ->
            [pc  |-> "m_rename", src |-> srcFs,
             dst |-> create_dir_all(dstFs, d), state |-> "running"]
      [] at = "m_rename" ->
            IF exists(srcFs, s) /\ exists(dstFs, d)
            THEN [pc  |-> "m_ret", src |-> rename_from(srcFs, s),
                  dst |-> move_dir_merging(dstFs, d, srcFs[s]),
                  state |-> "returned"]
            ELSE [pc  |-> "m_ret", src |-> srcFs, dst |-> dstFs,
                  state |-> "failed"]

move_dir_step_source_first(at, srcFs, s, dstFs, d) ==
    CASE at = "m_check" ->
            [pc  |-> IF exists(dstFs, d) THEN "m_delete" ELSE "m_create",
             src |-> srcFs, dst |-> dstFs, state |-> "running"]
      [] at = "m_delete" ->
            [pc  |-> "m_rename", src |-> rename_from(srcFs, s),
             dst |-> rename_to(dstFs, d, EmptyDir), state |-> "running"]
      [] at = "m_create" ->
            [pc  |-> "m_rename", src |-> rename_from(srcFs, s),
             dst |-> create_dir_all(dstFs, d), state |-> "running"]
      [] at = "m_rename" ->
            [pc  |-> "m_ret", src |-> srcFs,
             dst |-> rename_to(dstFs, d, EmptyDir), state |-> "returned"]

(* One filesystem step of move_dir(srcFs/s, dstFs/d) (module.rs 121-130):  *)
(* dst.exists(), then delete_dir(dst) or create_dir_all(dst), then         *)
(* rename(src, dst).                                                       *)
move_dir_step(at, srcFs, s, dstFs, d) ==
    CASE at = "m_check" ->
            [pc  |-> IF exists(dstFs, d) THEN "m_delete" ELSE "m_create",
             src |-> srcFs, dst |-> dstFs, state |-> "running"]
      [] at = "m_delete" ->
            [pc  |-> "m_rename", src |-> srcFs, dst |-> delete_dir(dstFs, d),
             state |-> "running"]
      [] at = "m_create" ->
            [pc  |-> "m_rename", src |-> srcFs,
             dst |-> create_dir_all(dstFs, d), state |-> "running"]
      [] at = "m_rename" ->
            IF rename_ok(srcFs, s, dstFs, d)
            THEN [pc  |-> "m_ret", src |-> rename_from(srcFs, s),
                  dst |-> rename_to(dstFs, d, srcFs[s]), state |-> "returned"]
            ELSE [pc  |-> "m_ret", src |-> srcFs, dst |-> dstFs,
                  state |-> "failed"]

(* The update directory at the start: an update of test_mod staged or     *)
(* not, alone or with what an earlier install of PkgTmpFull staged from    *)
(* the temporary directory .tmpA.                                          *)
StepsPending ==
    LET base == { fs \in InitPending : DOMAIN fs \subseteq {"test_mod"} }
    IN  base \cup
        { [x \in DOMAIN fs \cup {".tmpA"} |->
              IF x = ".tmpA" THEN Packages.PkgTmpFull.dir ELSE fs[x]] :
            fs \in base }

(* The module directory at the start: test_mod installed or not.          *)
StepsInstalled == { fs \in InitInstalled : DOMAIN fs \subseteq {"test_mod"} }

(* Archives whose install takes different paths through the command.       *)
StepsPackages ==
    {"PkgTmpFull", "PkgTmpBare", "PkgTmpFlagged", "PkgNoId", "PkgCorrupt"}

StepsInit ==
    /\ installed \in StepsInstalled
    /\ pending \in StepsPending
    /\ safeMode = FALSE
    /\ pc = "idle"
    /\ cur = NoCur
    /\ log = << >>
    /\ pre = NoPre
    /\ reader = NoReader
    /\ walk = NoWalk
    /\ proc = NoProc

(* A step of process p leaves it as record r; it overlaps the other        *)
(* process when that one is in the middle of its command.                  *)
StepOf(p, r, temp) ==
    proc' = [proc EXCEPT ![p] = r, !.temp = temp,
                         !.overlap = @ \/ Running(Other(p))]

Untouched == UNCHANGED <<safeMode, pc, cur, log, pre, reader, walk>>

(* main.rs 108-113: unpack into a fresh temporary directory t, which is    *)
(* kept, and validate its module.prop there.                               *)
IUnzip(p, t) ==
    /\ proc.install.pc = "idle"
    /\ t \notin DOMAIN proc.temp
    /\ LET pkg  == Packages[p]
           prop == read_module_prop(pkg.dir, t)
           temp == IF pkg.ok THEN unpack(proc.temp, t, pkg.dir)
                   ELSE proc.temp
           i    == [proc.install EXCEPT !.tmp = t]
       IN  IF ~pkg.ok
           THEN StepOf("install",
                       [i EXCEPT !.pc = "done", !.result = Err("cannot unpack")],
                       temp)
           ELSE IF ~prop.ok
           THEN StepOf("install",
                       [i EXCEPT !.pc = "done", !.result = Err(prop.err)], temp)
           ELSE StepOf("install",
                       [i EXCEPT !.pc = "i_check", !.id = prop.map["id"]], temp)
    /\ UNCHANGED <<installed, pending>>
    /\ Untouched

(* main.rs 116-117: target_dir.exists()                                    *)
ICheck ==
    /\ proc.install.pc = "i_check"
    /\ LET i == proc.install
       IN  IF exists(pending, i.id)
           THEN StepOf("install", [i EXCEPT !.pc = "i_delete"], proc.temp)
           ELSE StepOf("install",
                       [i EXCEPT !.pc = "m_check",
                                 !.call = Call(proc.temp, i.tmp, pending, i.id)],
                       proc.temp)
    /\ UNCHANGED <<installed, pending>>
    /\ Untouched

(* main.rs 119: delete_dir(target_dir), then the call of move_dir (125).   *)
IDelete ==
    /\ proc.install.pc = "i_delete"
    /\ pending' = delete_dir(pending, proc.install.id)
    /\ LET i == proc.install
       IN  StepOf("install",
                  [i EXCEPT !.pc = "m_check",
                            !.call = Call(proc.temp, i.tmp, pending', i.id)],
                  proc.temp)
    /\ UNCHANGED installed
    /\ Untouched

(* main.rs 125: a step of move_dir(temp_dir, target_dir).                  *)
IMove ==
    /\ proc.install.pc \in MovePcs
    /\ LET i == proc.install
           m == move_dir_step(i.pc, proc.temp, i.tmp, pending, i.id)
       IN  /\ pending' = m.dst
           /\ StepOf("install",
                     [i EXCEPT !.pc = m.pc, !.call.state = m.state], m.src)
    /\ UNCHANGED installed
    /\ Untouched

(* main.rs 125: move_dir returns; its error ends the command.              *)
IMoveRet ==
    /\ proc.install.pc = "m_ret"
    /\ LET i == proc.install
       IN  IF i.call.state = "returned"
           THEN StepOf("install", [i EXCEPT !.pc = "i_script"], proc.temp)
           ELSE StepOf("install",
                       [i EXCEPT !.pc = "done", !.result = Err("rename failed")],
                       proc.temp)
    /\ UNCHANGED <<installed, pending>>
    /\ Untouched

(* main.rs 127: run_script(target_dir, "install.sh").                      *)
IScript(exit) ==
    /\ proc.install.pc = "i_script"
    /\ LET i == proc.install
           r == run_script(pending, i.id, "install.sh", exit)
       IN  StepOf("install", [i EXCEPT !.pc = "done", !.result = r], proc.temp)
    /\ UNCHANGED <<installed, pending>>
    /\ Untouched

(* main.rs 186: read_dir(MODULES_DIR) at the head of the deletion loop.    *)
BBegin ==
    /\ proc.boot.pc = "idle"
    /\ proc.boot.passes < MaxBoots
    /\ StepOf("boot",
              [proc.boot EXCEPT !.pc = "b_delete", !.todo = DOMAIN installed,
                                !.passes = @ + 1],
              proc.temp)
    /\ UNCHANGED <<installed, pending>>
    /\ Untouched

(* main.rs 187-196: one entry of the deletion loop.                        *)
BDelete(e) ==
    /\ proc.boot.pc = "b_delete"
    /\ e \in proc.boot.todo
    /\ installed' = IF exists(installed, e) /\ has_uninstall_flag(installed[e])
                    THEN delete_dir(installed, e) ELSE installed
    /\ StepOf("boot", [proc.boot EXCEPT !.todo = @ \ {e}], proc.temp)
    /\ UNCHANGED pending
    /\ Untouched

(* main.rs 200: read_dir(MODULES_UPDATE_DIR) at the head of the promotion  *)
(* loop.                                                                   *)
BDeleteEnd ==
    /\ proc.boot.pc = "b_delete"
    /\ proc.boot.todo = {}
    /\ StepOf("boot",
              [proc.boot EXCEPT !.pc = "b_promote", !.todo = DOMAIN pending],
              proc.temp)
    /\ UNCHANGED <<installed, pending>>
    /\ Untouched

(* main.rs 201-206: the next entry; move_dir(path, target) is called.      *)
BPromote(e) ==
    /\ proc.boot.pc = "b_promote"
    /\ e \in proc.boot.todo
    /\ StepOf("boot",
              [proc.boot EXCEPT !.pc = "m_check", !.todo = @ \ {e}, !.e = e,
                                !.call = Call(pending, e, installed, e)],
              proc.temp)
    /\ UNCHANGED <<installed, pending>>
    /\ Untouched

(* main.rs 206: a step of move_dir(path, target).                          *)
BMove ==
    /\ proc.boot.pc \in MovePcs
    /\ LET b == proc.boot
           m == move_dir_step(b.pc, pending, b.e, installed, b.e)
       IN  /\ pending' = m.src
           /\ installed' = m.dst
           /\ StepOf("boot", [b EXCEPT !.pc = m.pc, !.call.state = m.state],
                     proc.temp)
    /\ Untouched

(* main.rs 206-208: move_dir returns; its error is only logged.            *)
BMoveRet ==
    /\ proc.boot.pc = "m_ret"
    /\ StepOf("boot", [proc.boot EXCEPT !.pc = "b_promote"], proc.temp)
    /\ UNCHANGED <<installed, pending>>
    /\ Untouched

(* main.rs 211-268: the promotion loop is over; what follows (the          *)
(* safe-mode test and the activation loop) leaves both directories alone.  *)
BPromoteEnd ==
    /\ proc.boot.pc = "b_promote"
    /\ proc.boot.todo = {}
    /\ StepOf("boot", [proc.boot EXCEPT !.pc = "done"], proc.temp)
    /\ UNCHANGED <<installed, pending>>
    /\ Untouched

(* The process is killed between two steps.  The directories stay as they  *)
(* are; init may start the boot pass again.                                *)
Kill(p) ==
    /\ Running(p)
    /\ LET r == proc[p]
           c == IF r.pc \in MovePcs
                THEN [r.call EXCEPT !.state = "killed"] ELSE r.call
       IN  proc' = [proc EXCEPT
                       ![p] = IF p = "boot"
                              THEN [r EXCEPT !.call = c, !.pc = "idle",
                                             !.cut = IF r.pc \in MovePcs \cup {"m_ret"}
                                                     THEN [name |-> c.name,
                                                           src  |-> c.src,
                                                           at   |-> r.pc]
                                                     ELSE @]
                              ELSE [r EXCEPT !.call = c, !.pc = "killed"]]
    /\ UNCHANGED <<installed, pending>>
    /\ Untouched

StepsNext ==
    \/ \E p \in StepsPackages, t \in TempNames : IUnzip(p, t)
    \/ ICheck
    \/ IDelete
    \/ IMove
    \/ IMoveRet
    \/ \E exit \in ExitCodes : IScript(exit)
    \/ BBegin
    \/ \E e \in DOMAIN installed : BDelete(e)
    \/ BDeleteEnd
    \/ \E e \in DOMAIN pending : BPromote(e)
    \/ BMove
    \/ BMoveRet
    \/ BPromoteEnd
    \/ \E p \in Procs : Kill(p)

SpecSteps == StepsInit /\ [][StepsNext]_vars

---------------------------------------------------------------------------
(* Vocabulary of the properties.                                           *)

InstallDone == pc = "done" /\ cur.cmd = "install"

UninstallDone == pc = "done" /\ cur.cmd = "uninstall"

BootRunning == cur.cmd = "boot"

BootDone == pc = "done" /\ cur.cmd = "boot"

InBoth == DOMAIN installed \cap DOMAIN pending

Flagged(dir) == "uninstall.flag" \in dir.files

ScriptEvents == {i \in DOMAIN log : log[i].op = "script"}

(* The module directory staged by the running install is in the update dir *)
Staged ==
    /\ cur.id \in DOMAIN pending
    /\ pending[cur.id] = cur.dir

(* Text that is a signed 32-bit integer, among the texts of the model.     *)
IntegerTexts == {"1", "2", "-3"}

(* The archive of the running install cannot be unpacked, or its metadata  *)
(* is not acceptable for the directory it was unpacked into.               *)
ArchiveRejected ==
    LET pkg == Packages[cur.pkg]
    IN  \/ ~pkg.ok
        \/ "module.prop" \notin pkg.dir.files
        \/ "id" \notin DOMAIN pkg.dir.prop
        \/ pkg.dir.prop["name"] = ""
        \/ pkg.dir.prop["version"] \notin IntegerTexts
        \/ pkg.dir.prop["id"] # cur.tmp

---------------------------------------------------------------------------
(* C1: installing a valid package whose module.prop says id=test_mod,      *)
(* version=1 succeeds and puts directory test_mod into the update-pending  *)
(* set at once, while the installed set is left as it was.                 *)
C1_InstallTestModLandsInPending ==
    (InstallDone /\ cur.pkg = "PkgTestMod") =>
        /\ cur.result = "ok"
        /\ "test_mod" \in DOMAIN pending
        /\ pending["test_mod"] = Packages["PkgTestMod"].dir
        /\ installed = pre.installed

C3_RejectedInstallChangesNothing ==
    (InstallDone /\ ArchiveRejected) =>
        /\ cur.result = "err"
        /\ installed = pre.installed
        /\ pending = pre.pending

(* C3 witness: an archive whose only fault is its version was refused      *)
(* while a module of the same id was waiting in the update dir.            *)
C3_Witness ==
    /\ InstallDone
    /\ cur.pkg = "PkgBadVersion"
    /\ cur.tmp = ".tmpA"
    /\ cur.result = "err"
    /\ ".tmpA" \in DOMAIN pending

(* C4: install.sh runs only once the module directory is in the            *)
(* update-pending set, and when it exits non-zero the command returns an   *)
(* error with the directory still there.                                   *)
C4_InstallScriptAfterStaging ==
    /\ pc = "install_script" => Staged
    /\ \A i \in ScriptEvents :
          log[i].arg = "install.sh" =>
              /\ Staged
              /\ \E j \in 1..(i - 1) : log[j].op = "stage" /\ log[j].id = cur.id
    /\ (InstallDone /\ \E i \in ScriptEvents : ~log[i].ok) =>
          cur.result = "err" /\ Staged

(* C4 witness: install.sh ran and failed, the module is staged.            *)
C4_Witness ==
    /\ InstallDone
    /\ \E i \in ScriptEvents : log[i].arg = "install.sh" /\ ~log[i].ok
    /\ cur.result = "err"
    /\ Staged

(* C5: uninstall of a module that is installed, not update-pending and not *)
(* flagged runs uninstall.sh and creates uninstall.flag; uninstall of a    *)
(* flagged one removes the flag and runs no script; the directory stays    *)
(* installed in both cases.  (Read for scripts that exit zero.)            *)
C5_UninstallTogglesFlag ==
    (/\ UninstallDone
     /\ cur.id \in DOMAIN pre.installed
     /\ cur.id \notin DOMAIN pre.pending
     /\ \A i \in ScriptEvents : log[i].ok) =>
        /\ cur.id \in DOMAIN installed
        /\ IF Flagged(pre.installed[cur.id])
           THEN /\ ~Flagged(installed[cur.id])
                /\ ScriptEvents = {}
           ELSE /\ Flagged(installed[cur.id])
                /\ "uninstall.sh" \in pre.installed[cur.id].files =>
                       \E i \in ScriptEvents : log[i].arg = "uninstall.sh"

(* C6: scripts are optional: install of a validated module without         *)
(* install.sh succeeds with the module update-pending, and uninstall of an *)
(* installed, unflagged module without uninstall.sh still writes           *)
(* uninstall.flag.                                                         *)
C6_ScriptsAreOptional ==
    /\ (InstallDone /\ cur.id # "none" /\ "install.sh" \notin cur.dir.files) =>
          cur.result = "ok" /\ Staged
    /\ (/\ UninstallDone
        /\ cur.id \in DOMAIN pre.installed
        /\ cur.id \notin DOMAIN pre.pending
        /\ ~Flagged(pre.installed[cur.id])
        /\ "uninstall.sh" \notin pre.installed[cur.id].files) =>
          cur.id \in DOMAIN installed /\ Flagged(installed[cur.id])

(* C7: uninstall of an id that has an update-pending directory deletes     *)
(* that directory and nothing else: no script runs, the installed set      *)
(* (a same-id directory and its flag included) is unchanged, and an id     *)
(* that was only update-pending is then in neither set.                    *)
C7_UninstallPendingDeletesOnlyPending ==
    (UninstallDone /\ cur.id \in DOMAIN pre.pending) =>
        /\ DOMAIN pending = DOMAIN pre.pending \ {cur.id}
        /\ \A n \in DOMAIN pending : pending[n] = pre.pending[n]
        /\ installed = pre.installed
        /\ ScriptEvents = {}
        /\ cur.result = "ok"
        /\ cur.id \notin DOMAIN pre.installed => cur.id \notin DOMAIN installed

(* C7 witness: the id was in both sets and is now installed only.          *)
C7_Witness ==
    /\ UninstallDone
    /\ cur.id \in DOMAIN pre.pending \cap DOMAIN pre.installed
    /\ "uninstall.sh" \in pre.installed[cur.id].files
    /\ cur.id \in DOMAIN installed
    /\ cur.id \notin DOMAIN pending

(* Phase of a boot-pass event: deletion, promotion, activation.            *)
PhaseRank(ev) ==
    CASE ev.op = "unlock" -> 0
      [] ev.op = "delete" -> 1
      [] ev.op = "promote" -> 2
      [] OTHER -> 3

(* C8: within a boot pass every deletion of a flagged installed module     *)
(* comes before every promotion, and every promotion before every bind     *)
(* mount and every boot-complete.sh.                                       *)
C8_BootPhasesInOrder ==
    BootRunning =>
        \A i, j \in DOMAIN log : i < j => PhaseRank(log[i]) <= PhaseRank(log[j])

(* C8 witness: a pass that deleted, promoted, mounted and ran a script.    *)
C8_Witness ==
    /\ BootDone
    /\ \E i, j, k, l \in DOMAIN log :
          /\ log[i].op = "delete"
          /\ log[j].op = "promote"
          /\ log[k].op = "mount"
          /\ log[l].op = "script"

FlaggedAtStart ==
    {n \in DOMAIN pre.installed :
        Flagged(pre.installed[n]) /\ n \notin DOMAIN pre.pending}

FlaggedInstalledAtStart ==
    {n \in DOMAIN pre.installed : Flagged(pre.installed[n])}

EventsOf(op, n) == {i \in DOMAIN log : log[i].op = op /\ log[i].id = n}

(* Module n is installed with valid metadata and without disable.flag.     *)
Activatable(n) ==
    /\ n \in DOMAIN installed
    /\ read_module_prop(installed[n], n).ok
    /\ "disable.flag" \notin installed[n].files

(* skip_mount of module n reads true, whatever the letter case.            *)
SkipsMount(n) ==
    to_lowercase(Chars(read_module_prop(installed[n], n).map["skip_mount"]))
        = Chars("true")

(* The mount of module n failed in this pass: a bind mount failed, or the  *)
(* module has no system/ to mount.                                         *)
MountFailed(n) ==
    \/ \E i \in EventsOf("mount", n) : ~log[i].ok
    \/ ~SkipsMount(n) /\ "system" \notin installed[n].files

(* C12: in the activation phase a mount failure or a boot-complete.sh      *)
(* failure skips only that module (no boot-complete.sh after a failed      *)
(* mount); every other valid, enabled module is still mounted unless       *)
(* skip_mount and has its boot-complete.sh run, and the pass completes.    *)
C12_FailureSkipsOnlyThatModule ==
    (BootDone /\ ~safeMode) =>
        /\ cur.result = "ok"
        /\ \A n \in DOMAIN installed :
              Activatable(n) =>
                 IF MountFailed(n)
                 THEN EventsOf("script", n) = {}
                 ELSE /\ ~SkipsMount(n) => EventsOf("mount", n) # {}
                      /\ "boot-complete.sh" \in installed[n].files =>
                            EventsOf("script", n) # {}

(* C12 witness: a pass in which one module's mount failed and another      *)
(* module's boot-complete.sh failed, each followed by the successful mount *)
(* or script of a different module.                                        *)
C12_Witness ==
    /\ BootDone
    /\ ~safeMode
    /\ \E i, j \in DOMAIN log :
          /\ i < j
          /\ log[i].op = "mount" /\ ~log[i].ok
          /\ log[j].op \in {"mount", "script"} /\ log[j].ok
          /\ log[j].id # log[i].id
    /\ \E i, j \in DOMAIN log :
          /\ i < j
          /\ log[i].op = "script" /\ ~log[i].ok
          /\ log[j].op \in {"mount", "script"} /\ log[j].ok
          /\ log[j].id # log[i].id

(* Installed modules carrying disable.flag when the pass started.          *)
DisabledAtStart ==
    {n \in DOMAIN pre.installed : "disable.flag" \in pre.installed[n].files}

(* No bind mount and no script of the running command is for module n.     *)
NotActivated(n) == EventsOf("mount", n) = {} /\ EventsOf("script", n) = {}

C14_SkipMountAnyCase ==
    (BootDone /\ ~safeMode) =>
        \A n \in DOMAIN installed :
            (Activatable(n) /\ SkipsMount(n)) =>
                /\ EventsOf("mount", n) = {}
                /\ "boot-complete.sh" \in installed[n].files =>
                      EventsOf("script", n) # {}

(* What module.prop was written from: the value of every key that has a    *)
(* "k=v" line, a repeated key taking its last value.                       *)
RECURSIVE WrittenFrom(_, _)
WrittenFrom(entries, map) ==
    IF entries = << >> THEN map
    ELSE WrittenFrom(Tail(entries),
                     IF Head(entries).eq
                     THEN Insert(map, Head(entries).k, Head(entries).v)
                     ELSE map)

Written == WrittenFrom(reader.entries, EmptyFs)

RequiredKeys == <<"id", "name", "description", "version">>

(* Key k is missing or malformed in what was written.                      *)
Failing(k) ==
    \/ k \notin DOMAIN Written
    \/ k # "version" /\ Written[k] = ""
    \/ k = "version" /\ Written[k] \notin IntegerTexts

(* The error message is about key k.                                       *)
ErrorNames(err, k) ==
    err \in {"missing required property: " \o k,
             "property " \o k \o " cannot be empty",
             "property " \o k \o " must be a valid integer"}

(* C15: when required keys are missing or malformed, parsing fails and the *)
(* error names the first failing key in the order id, name, description,   *)
(* version, and no later one.                                              *)
C15_ErrorNamesFirstFailingKey ==
    reader.calls > 0 =>
        \A i \in DOMAIN RequiredKeys :
            (/\ Failing(RequiredKeys[i])
             /\ \A j \in 1..(i - 1) : ~Failing(RequiredKeys[j])) =>
                /\ ~reader.last.ok
                /\ ErrorNames(reader.last.err, RequiredKeys[i])
                /\ \A j \in DOMAIN RequiredKeys :
                      j # i => ~ErrorNames(reader.last.err, RequiredKeys[j])

(* C15 witness: version, the first line of the file, is malformed and name *)
(* is empty while id is valid; the error reported is the one about name.   *)
C15_Witness ==
    /\ reader.calls > 0
    /\ ~Failing("id")
    /\ Failing("name") /\ "name" \in DOMAIN Written
    /\ Failing("version") /\ "version" \in DOMAIN Written
    /\ reader.last.err = "property name cannot be empty"

(* C16: when the id of a module.prop differs from the name of its parent   *)
(* directory, read_module_prop fails whatever the other fields are; so     *)
(* does the install that validates a package in its unpacking directory.   *)
C16_IdMustNameDirectory ==
    /\ \A p \in DOMAIN Packages, t \in TempNames \cup CommandIds :
          ("id" \in DOMAIN Packages[p].dir.prop
              /\ Packages[p].dir.prop["id"] # t) =>
             ~read_module_prop(Packages[p].dir, t).ok
    /\ \A n \in DOMAIN installed :
          ("id" \in DOMAIN installed[n].prop /\ installed[n].prop["id"] # n) =>
             ~read_module_prop(installed[n], n).ok
    /\ (/\ InstallDone
        /\ "id" \in DOMAIN Packages[cur.pkg].dir.prop
        /\ Packages[cur.pkg].dir.prop["id"] # cur.tmp) =>
          /\ cur.result = "err"
          /\ installed = pre.installed
          /\ pending = pre.pending

(* C16 witness: install refused a package that is valid in every field     *)
(* because its id is not the name of the temporary directory.              *)
C16_Witness ==
    /\ InstallDone
    /\ cur.pkg = "PkgTestMod"
    /\ cur.tmp = ".tmpA"
    /\ cur.result = "err"
    /\ read_module_prop(Packages[cur.pkg].dir, cur.tmp).err
          = "id 'test_mod' does not match directory name '.tmpA'"
    /\ read_module_prop(Packages[cur.pkg].dir, "test_mod").ok

(* C17: a module whose id has a character other than an ASCII letter,      *)
(* digit or underscore is rejected by the metadata parser, so none is ever *)
(* staged into update-pending or activated by a boot pass.                 *)
C17_OnlyCleanIdsStagedOrActivated ==
    /\ \A n \in DOMAIN pending : parse_module_id(n)
    /\ \A n \in DOMAIN installed :
          read_module_prop(installed[n], n).ok => parse_module_id(n)
    /\ \A i \in DOMAIN log :
          log[i].op \in {"stage", "mount", "script"} => parse_module_id(log[i].id)

(* The required properties written are valid and the id is the directory   *)
(* name.                                                                   *)
RequiredValid ==
    /\ \A i \in DOMAIN RequiredKeys : ~Failing(RequiredKeys[i])
    /\ Written["id"] = reader.dirName

(* What the parser is to return: the keys written, and skip_mount.         *)
Expected ==
    IF "skip_mount" \in DOMAIN Written THEN Written
    ELSE Insert(Written, "skip_mount", "false")

(* C18 as stated: a file that supplies valid id, name, description and     *)
(* version, the id being the directory name, parses to exactly the keys    *)
(* present (trimmed, split at the first '=') plus skip_mount="false" when  *)
(* absent; parsing changes nothing and gives the same result when          *)
(* repeated.                                                               *)
C18_ValidFileParses ==
    /\ reader.content = Render(reader.entries)
    /\ reader.calls > 1 => reader.last = reader.first
    /\ (reader.calls > 0 /\ RequiredValid) =>
          reader.last.ok /\ reader.last.map = Expected

(* C18 amended: the same, for files whose skip_mount, when present, reads  *)
(* true or false in some letter case.                                      *)
C18_ValidFileWithValidSkipMountParses ==
    /\ reader.content = Render(reader.entries)
    /\ reader.calls > 1 => reader.last = reader.first
    /\ (/\ reader.calls > 0
        /\ RequiredValid
        /\ "skip_mount" \in DOMAIN Written =>
               Written["skip_mount"] \in {"true", "TRUE", "True", "false"}) =>
          reader.last.ok /\ reader.last.map = Expected

(* C18 witness: a file read twice that holds a line without '=', a padded  *)
(* id line, a value with '=' inside and no skip_mount.                     *)
C18_Witness ==
    /\ reader.calls = 2
    /\ reader.last.ok
    /\ \E i \in DOMAIN reader.entries : reader.entries[i] = Text("junk")
    /\ \E i \in DOMAIN reader.entries :
          reader.entries[i] = KV("id", "mod_b", " ")
    /\ reader.last.map["name"] = "a=b"
    /\ "skip_mount" \notin DOMAIN Written
    /\ reader.last.map["skip_mount"] = "false"

(* The directories above path q, below the root.                           *)
Ancestors(q) == {SubSeq(q, 1, k) : k \in 1..(Len(q) - 1)}

IsBelow(q, d) == Len(d) < Len(q) /\ SubSeq(q, 1, Len(d)) = d

BindMount(q) == [src |-> SystemDir \o q, dst |-> q]

(* Regular files of system/ whose counterpart and whose ancestors'         *)
(* counterparts exist on the live root.                                    *)
Mountable ==
    {q \in DOMAIN walk.tree :
        /\ walk.tree[q] = "file"
        /\ q \in walk.live
        /\ \A a \in Ancestors(q) : a \in walk.live}

(* C19: after a walk that ends without error the bind mounts performed are *)
(* exactly system/<rel> -> /<rel> for the regular files <rel> whose        *)
(* counterpart and ancestor directories exist on the live root; no         *)
(* directory, symlink or special file is ever the source of a mount.       *)
C19_MountsExactlyExistingFiles ==
    /\ \A m \in walk.mounts :
          /\ m = BindMount(m.dst)
          /\ m.dst \in DOMAIN walk.tree
          /\ walk.tree[m.dst] = "file"
    /\ walk.status = "ok" => walk.mounts = {BindMount(q) : q \in Mountable}

(* C19 witness: a walk ended without error having mounted a file three     *)
(* levels down, passing a symlink whose counterpart exists and a file      *)
(* whose counterpart does not.                                             *)
C19_Witness ==
    /\ walk.status = "ok"
    /\ BindMount(<<"etc", "ssl", "cert">>) \in walk.mounts
    /\ \E q \in DOMAIN walk.tree : walk.tree[q] = "symlink" /\ q \in walk.live
    /\ \E q \in DOMAIN walk.tree : walk.tree[q] = "file" /\ q \notin walk.live

(* Directories of system/ without counterpart on the live root.            *)
Pruned ==
    {d \in DOMAIN walk.tree : walk.tree[d] = "dir" /\ d \notin walk.live}

Siblings(d) ==
    {q \in DOMAIN walk.tree : q # d /\ Parent(q) = Parent(d)}

(* C20: a directory under system/ whose live-root counterpart does not     *)
(* exist is not entered, nothing below it is mounted, it raises no error   *)
(* (a walk fails only on a bind mount), and the walk goes on with its      *)
(* siblings.                                                               *)
C20_MissingDirectoryIsPruned ==
    /\ \A d \in Pruned :
          /\ SystemDir \o d \notin walk.visited
          /\ \A m \in walk.mounts : ~IsBelow(m.dst, d)
          /\ walk.status = "ok" =>
                \A q \in Siblings(d) :
                    /\ (walk.tree[q] = "file" /\ q \in walk.live) =>
                          BindMount(q) \in walk.mounts
                    /\ (walk.tree[q] = "dir" /\ q \in walk.live) =>
                          SystemDir \o q \in walk.visited
    /\ walk.status = "err" =>
          /\ walk.error \in DOMAIN walk.tree
          /\ walk.tree[walk.error] = "file"
          /\ walk.error \in walk.live

(* C20 witness: a walk ended without error after it met, in a directory it *)
(* entered, a directory without counterpart that holds a file, and mounted *)
(* a sibling of that directory.                                            *)
C20_Witness ==
    /\ walk.status = "ok"
    /\ \E d \in Pruned :
          /\ SystemDir \o Parent(d) \in walk.visited
          /\ \E q \in DOMAIN walk.tree :
                IsBelow(q, d) /\ walk.tree[q] = "file"
          /\ \E q \in Siblings(d) : BindMount(q) \in walk.mounts

(* Regular files of system/ without counterpart on the live root.          *)
Skipped ==
    {q \in DOMAIN walk.tree : walk.tree[q] = "file" /\ q \notin walk.live}

(* C21: a regular file under system/ whose live-root counterpart does not  *)
(* exist is not mounted and nothing is created on the live root, and the   *)
(* walk goes on: every qualifying sibling is mounted (or, a directory,     *)
(* entered) by a walk that ends without error.                             *)
C21_MissingFileIsSkipped ==
    /\ [](\A f \in Skipped :
            /\ \A m \in walk.mounts : m.dst # f /\ m.src # SystemDir \o f
            /\ walk.status = "ok" =>
                  \A q \in Siblings(f) :
                      /\ (walk.tree[q] = "file" /\ q \in walk.live) =>
                            BindMount(q) \in walk.mounts
                      /\ (walk.tree[q] = "dir" /\ q \in walk.live) =>
                            SystemDir \o q \in walk.visited)
    /\ [][walk'.live = walk.live /\ walk'.tree = walk.tree]_vars

(* C21 witness: a walk ended without error after it met, in a directory    *)
(* below system/, a file without counterpart, and mounted a sibling of it. *)
C21_Witness ==
    /\ walk.status = "ok"
    /\ \E f \in Skipped :
          /\ Len(f) > 1
          /\ SystemDir \o Parent(f) \in walk.visited
          /\ \E q \in Siblings(f) : BindMount(q) \in walk.mounts

(* C22: a failed bind mount stops the walk at every recursion level: no    *)
(* call is left on the stack, mount_module returns the error, nothing is   *)
(* mounted afterwards, and the mounts made before stay.                    *)
C22_MountFailureAbortsWithoutRollback ==
    /\ [](walk.status = "err" =>
             /\ walk.stack = << >>
             /\ walk.error \in Mountable
             /\ BindMount(walk.error) \notin walk.mounts)
    /\ [][/\ walk.mounts \subseteq walk'.mounts
          /\ walk.status = "err" => walk' = walk]_vars

(* C22 witness: a bind mount failed two levels down after another file had *)
(* been mounted and while a qualifying file was still to come.             *)
C22_Witness ==
    /\ walk.status = "err"
    /\ Len(walk.error) > 1
    /\ walk.mounts # {}
    /\ \E q \in Mountable : q # walk.error /\ BindMount(q) \notin walk.mounts

(* The command before the running one was a boot pass.                     *)
AfterBootPass == pre.prev = "boot"

PromoteEvents == {i \in DOMAIN log : log[i].op = "promote"}

(* C25 as stated: after a boot pass the update-pending set is empty, with  *)
(* or without the safe-mode marker, so a boot pass run right after another *)
(* promotes nothing and leaves the membership of the installed set as it   *)
(* was.                                                                    *)
C25_SecondPassChangesNothing ==
    BootDone =>
        /\ pending = EmptyFs
        /\ AfterBootPass =>
              /\ pre.pending = EmptyFs
              /\ PromoteEvents = {}
              /\ DOMAIN installed = DOMAIN pre.installed

(* C25 amended: the same, except that the second pass deletes the          *)
(* installed modules that carry uninstall.flag (modules promoted with that *)
(* file in their package); every other module stays as it was.             *)
C25_SecondPassOnlyDeletesFlagged ==
    BootDone =>
        /\ pending = EmptyFs
        /\ AfterBootPass =>
              /\ pre.pending = EmptyFs
              /\ PromoteEvents = {}
              /\ DOMAIN installed =
                     DOMAIN pre.installed \ FlaggedInstalledAtStart
              /\ \A n \in DOMAIN installed : installed[n] = pre.installed[n]

(* C25 witness: a second pass in a row ended, in safe mode, with a module  *)
(* installed that only a promotion can have put there.                     *)
C25_Witness ==
    /\ BootDone
    /\ AfterBootPass
    /\ safeMode
    /\ ".tmpA" \in DOMAIN installed
    /\ "test_mod" \in DOMAIN installed

---------------------------------------------------------------------------
(* move_dir, step by step.                                                 *)

(* Where process p's move_dir takes its source from and puts it.           *)
SrcFs(p) == IF p = "install" THEN proc.temp ELSE pending

DstFs(p) == IF p = "install" THEN pending ELSE installed

SrcName(p) == IF p = "install" THEN proc.install.tmp ELSE proc.boot.e

DstName(p) == proc[p].call.name

(* Process p's move_dir has just returned Ok.                              *)
MoveReturned(p) == proc[p].pc = "m_ret" /\ proc[p].call.state = "returned"

(* C23: for move_dir(a, b) with a an existing directory, whether b existed *)
(* before (with any contents) or not: after a successful call that no      *)
(* other command ran across, b holds exactly what a held when the call was *)
(* made, nothing of the old b remains, and a no longer exists.             *)
C23_MoveDirReplaces ==
    \A p \in Procs :
        (MoveReturned(p) /\ ~proc.overlap) =>
            /\ exists(DstFs(p), DstName(p))
            /\ DstFs(p)[DstName(p)] = proc[p].call.src
            /\ ~exists(SrcFs(p), SrcName(p))

(* C23 witness: a promotion's move_dir returned Ok over an installed       *)
(* version that had files the update does not have.                        *)
C23_Witness ==
    /\ MoveReturned("boot")
    /\ ~proc.overlap
    /\ proc.boot.call.dstThere
    /\ proc.boot.call.dst.files \ proc.boot.call.src.files # {}
    /\ installed[proc.boot.e] = proc.boot.call.src
(* Process p is inside a call of move_dir, between two of its steps.       *)
InMove(p) == proc[p].pc \in MovePcs \cup {"m_ret"}

(* Process p was killed inside move_dir and nothing has run since.         *)
CutShort(p) ==
    /\ proc[p].call.state = "killed"
    /\ proc[p].pc = IF p = "boot" THEN "idle" ELSE "killed"
    /\ proc[Other(p)].pc = "idle"
    /\ proc.boot.passes = IF p = "boot" THEN 1 ELSE 0

(* The source of p's move_dir is whole at src, with dst absent, empty or   *)
(* still the old directory, or it is whole at dst and gone from src.       *)
Whole(p) ==
    LET c == proc[p].call
        a == SrcName(p)
        b == DstName(p)
    IN  \/ /\ exists(SrcFs(p), a)
           /\ SrcFs(p)[a] = c.src
           /\ exists(DstFs(p), b) => DstFs(p)[b] \in {EmptyDir, c.dst}
        \/ /\ ~exists(SrcFs(p), a)
           /\ exists(DstFs(p), b)
           /\ DstFs(p)[b] = c.src

(* C24: wherever a move_dir(src, dst) that no other command ran across is  *)
(* killed between two of its filesystem steps, the complete source is at   *)
(* src or at dst, never at neither and never partly at both; a module      *)
(* whose promotion was cut short stays whole in the update directory or    *)
(* the module directory, and once a later boot pass has ended (no install  *)
(* having run) it is in the module directory and no longer pending.        *)
C24_KilledMoveKeepsSource ==
    /\ \A p \in Procs :
          (~proc.overlap /\ (InMove(p) \/ CutShort(p))) => Whole(p)
    /\ (proc.boot.cut.at # "none" /\ proc.install.pc = "idle") =>
          LET n == proc.boot.cut.name
              S == proc.boot.cut.src
          IN  /\ \/ exists(pending, n) /\ pending[n] = S
                 \/ exists(installed, n) /\ installed[n] = S
              /\ proc.boot.pc = "done" =>
                    /\ exists(installed, n)
                    /\ installed[n] = S
                    /\ ~exists(pending, n)

(* C24 witness: a boot pass was killed after it had deleted the installed  *)
(* test_mod and before the rename; a later pass has ended and the update   *)
(* is installed.                                                           *)
C24_Witness ==
    /\ proc.boot.cut.at = "m_rename"
    /\ proc.boot.cut.name = "test_mod"
    /\ proc.boot.pc = "done"
    /\ proc.install.pc = "idle"
    /\ installed["test_mod"] = proc.boot.cut.src
    /\ "test_mod" \notin DOMAIN pending

---------------------------------------------------------------------------
(* Install racing a boot pass.                                             *)

(* The boot pass has promoted what install staged: m is out of the update  *)
(* directory and in the module directory, as install's move_dir put it.    *)
PromotedAway ==
    LET m == proc.install.id
    IN  /\ proc.install.call.state = "returned"
        /\ proc.boot.call.name = m
        /\ proc.boot.call.state = "returned"
        /\ proc.boot.call.src = proc.install.call.src
        /\ ~exists(pending, m)
        /\ exists(installed, m)
        /\ installed[m] = proc.install.call.src

(* C26: install and the boot pass are not kept apart.  When the boot pass  *)
(* promotes m after install has staged it and before install runs          *)
(* install.sh, run_script finds no script, the install command fails, and  *)
(* m is in the module directory all the same.                              *)
C26_PromotionBeforeScriptFailsInstall ==
    [][(/\ proc.install.pc = "i_script"
        /\ proc'.install.pc = "done"
        /\ PromotedAway)
       => /\ proc'.install.result = Err("script does not exist")
          /\ exists(installed', proc.install.id)
          /\ installed'[proc.install.id] = proc.install.call.src]_vars

(* C26 witness: such an interleaving has happened to a package that ships  *)
(* install.sh.                                                             *)
C26_Witness ==
    /\ proc.overlap
    /\ proc.install.pc = "done"
    /\ proc.install.result = Err("script does not exist")
    /\ "install.sh" \in proc.install.call.src.files
    /\ PromotedAway

===========================================================================
